---- MODULE Spec2Model ----
(***************************************************************************)
(* A model of datatree/mapping.py: the tree isomorphism check              *)
(* (check_isomorphic, diff_treestructure) and the map combinator           *)
(* (map_over_subtree with _check_all_return_values and                     *)
(* _check_single_set_return_values).                                       *)
(*                                                                         *)
(* An ordered tree is a record of three sequences indexed by node:         *)
(* parent (0 for the root), name and empty (the node holds no data).       *)
(* The children of a node are the nodes naming it as parent, in            *)
(* increasing order.  A tree argument is a handle: a tree and one of its   *)
(* nodes.  A path "/a/b" is the sequence <<"a", "b">> of the names below   *)
(* the root; the root's path "/" is <<>>.                                  *)
(***************************************************************************)
EXTENDS Integers, Sequences, FiniteSets, TLC

VARIABLES
    args,               \* the call's arguments, positional then keyword
    func,               \* the mapped function: what it returns at each data node
    opts,               \* require_names_equal and check_from_root of the check
    pc,                 \* position in the call
    walk,               \* number of zipped positions the traversal has visited
    out_data_objects,   \* the per-node results, a dict in insertion order
    values,             \* the values handed to dask.compute, as resolved so far
    invoked,            \* how often func ran for each node of the first tree
    num_return_values,  \* what _check_all_return_values returned
    result_trees,       \* the output trees built so far
    outcome,            \* the call's result: nothing yet, a value or an error
    checks              \* results of check_isomorphic calls, in call order

vars == <<args, func, opts, pc, walk, out_data_objects, values, invoked,
          num_return_values, result_trees, outcome, checks>>

\* -------------------------------------------------------------- bounds

\* Largest number of nodes of a tree argument of a map call.
MaxNodes == 3

\* Largest number of nodes of a tree handed to check_isomorphic directly.
MaxIsoNodes == 3

\* Longest tuple of datasets func returns.
MaxTuple == 2

\* Node names; the children of one node have distinct names.
Names == {"a", "b"}

\* ---------------------------------------------------------------- trees

RECURSIVE AncestorsOrSelf(_, _)
\* The nodes on the way from node i up to the root, given a parent sequence.
AncestorsOrSelf(parent, i) ==
    IF i = 0 THEN {} ELSE {i} \cup AncestorsOrSelf(parent, parent[i])

\* The parent sequences of the ordered trees of n nodes, nodes numbered in
\* the order they were attached (each new node is the last child of a node
\* on the rightmost branch): one sequence per ordered tree.
ParentVectors(n) ==
    { p \in [1..n -> 0..(n - 1)] :
        /\ p[1] = 0
        /\ \A i \in 2..n : p[i] \in AncestorsOrSelf(p, i - 1) }

\* The trees of n nodes: every shape, every naming with distinct sibling
\* names, every choice of which nodes hold data.
TreesOfSize(n) ==
    { t \in [parent : ParentVectors(n), name : [1..n -> Names],
             empty : [1..n -> BOOLEAN]] :
        \A i, j \in 1..n :
            (i # j /\ t.parent[i] = t.parent[j]) => t.name[i] # t.name[j] }

\* The trees of n nodes in which every node holds data.
FullTreesOfSize(n) ==
    { t \in TreesOfSize(n) : \A i \in 1..n : ~t.empty[i] }

Size(t) == Len(t.parent)

\* node.children: the ordered children of node i.
Children(t, i) ==
    SelectSeq([k \in 1..Size(t) |-> k], LAMBDA j : t.parent[j] = i)

RECURSIVE Root(_, _)
\* node.root
Root(t, i) == IF t.parent[i] = 0 THEN i ELSE Root(t, t.parent[i])

RECURSIVE Path(_, _)
\* node.path: the names from below the root down to node i.
Path(t, i) ==
    IF t.parent[i] = 0 THEN <<>>
    ELSE Append(Path(t, t.parent[i]), t.name[i])

RECURSIVE Flatten(_)
Flatten(ss) == IF ss = <<>> THEN <<>> ELSE Head(ss) \o Flatten(Tail(ss))

RECURSIVE Subtree(_, _)
\* node.subtree: depth-first pre-order, the node itself first.
Subtree(t, i) ==
    LET cs == Children(t, i)
    IN  <<i>> \o Flatten([k \in 1..Len(cs) |-> Subtree(t, cs[k])])

RECURSIVE LevelOrderFrom(_, _)
LevelOrderFrom(t, queue) ==
    IF queue = <<>> THEN <<>>
    ELSE <<Head(queue)>>
            \o LevelOrderFrom(t, Tail(queue) \o Children(t, Head(queue)))

\* LevelOrderIter(node): breadth-first, the node itself first.
LevelOrderIter(t, i) == LevelOrderFrom(t, <<i>>)

\* ------------------------------------------------------------ arguments

TreeArg(t, i) == [kind |-> "tree", tree |-> t, node |-> i]

\* An argument that is no tree.
Scalar == [kind |-> "scalar"]

\* isinstance(a, DataTree)
IsTree(a) == a.kind = "tree"

Min(x, y) == IF x < y THEN x ELSE y

\* --------------------------------------------------- the isomorphism check

\* DiffAt comparing the numbers of children only where both nodes have some.
DiffAt_SkipsLeaves(ta, na, tb, nb, require_names_equal) ==
    IF require_names_equal /\ ta.name[na] # tb.name[nb]
    THEN <<"name", Path(ta, na), Path(tb, nb)>>
    ELSE IF /\ Len(Children(ta, na)) # Len(Children(tb, nb))
            /\ Len(Children(ta, na)) > 0
            /\ Len(Children(tb, nb)) > 0
    THEN <<"children", Path(ta, na), Path(tb, nb)>>
    ELSE <<>>

\* One paired position of diff_treestructure: the name test (when asked
\* for), then the number of children.
DiffAt(ta, na, tb, nb, require_names_equal) ==
    IF require_names_equal /\ ta.name[na] # tb.name[nb]
    THEN <<"name", Path(ta, na), Path(tb, nb)>>
    ELSE IF Len(Children(ta, na)) # Len(Children(tb, nb))
    THEN <<"children", Path(ta, na), Path(tb, nb)>>
    ELSE <<>>

RECURSIVE DiffFrom_StopsEarly(_, _, _, _, _, _)
\* DiffFrom with the last paired position left out.
DiffFrom_StopsEarly(ta, la, tb, lb, require_names_equal, k) ==
    IF k > Min(Len(la), Len(lb)) - 1 THEN <<>>
    ELSE LET d == IF require_names_equal /\ ta.name[la[k]] # tb.name[lb[k]]
                  THEN <<"name", Path(ta, la[k]), Path(tb, lb[k])>>
                  ELSE IF Len(Children(ta, la[k])) # Len(Children(tb, lb[k]))
                  THEN <<"children", Path(ta, la[k]), Path(tb, lb[k])>>
                  ELSE <<>>
         IN  IF d # <<>> THEN d
             ELSE DiffFrom_StopsEarly(ta, la, tb, lb, require_names_equal, k + 1)

RECURSIVE DiffFrom(_, _, _, _, _, _)
\* The zip loop of diff_treestructure from paired position k on; it ends
\* with the shorter traversal.
DiffFrom(ta, la, tb, lb, require_names_equal, k) ==
    IF k > Min(Len(la), Len(lb)) THEN <<>>
    ELSE LET d == DiffAt(ta, la[k], tb, lb[k], require_names_equal)
         IN  IF d # <<>> THEN d
             ELSE DiffFrom(ta, la, tb, lb, require_names_equal, k + 1)

\* diff_treestructure(a, b, require_names_equal): <<>> is the empty string,
\* anything else says what differs and at which two paths.
diff_treestructure(a, b, require_names_equal) ==
    DiffFrom(a.tree, LevelOrderIter(a.tree, a.node),
             b.tree, LevelOrderIter(b.tree, b.node), require_names_equal, 1)

\* check_isomorphic: "ok" when it returns, else the error it raises.
check_isomorphic(a, b, require_names_equal, check_from_root) ==
    IF ~IsTree(a) \/ ~IsTree(b) THEN "TypeError"
    ELSE LET ra == IF check_from_root
                   THEN TreeArg(a.tree, Root(a.tree, a.node)) ELSE a
             rb == IF check_from_root
                   THEN TreeArg(b.tree, Root(b.tree, b.node)) ELSE b
         IN  IF diff_treestructure(ra, rb, require_names_equal) # <<>>
             THEN "TreeIsomorphismError"
             ELSE "ok"

\* ------------------------------------------------------------- values

None == [type |-> "None"]

\* A value that is neither a Dataset, a DataArray nor a tuple.
Other == [type |-> "int"]

\* The dataset of node n of the tree passed as argument number pos when
\* slot = 0, and the slot-th dataset func makes from it otherwise.
Dataset(pos, n, slot) == [type |-> "Dataset", of |-> <<pos, n>>, slot |-> slot]

TupleOf(items) == [type |-> "tuple", items |-> items]

\* What a call of func can return: None, the dataset it was given, an
\* object that is no dataset, a 2-tuple whose second element is no dataset,
\* or a tuple of 0 to MaxTuple new datasets.
Kinds ==
    {<<"none">>, <<"ds">>, <<"other">>, <<"mixed">>}
        \cup { <<"tuple", k>> : k \in 0..MaxTuple }

\* ------------------------------------------------------------ dicts

\* A dict is the sequence of its items in insertion order.
DictKeys(d) == [k \in 1..Len(d) |-> d[k].key]

DictValues(d) == [k \in 1..Len(d) |-> d[k].value]

DictHas(d, key) == \E k \in 1..Len(d) : d[k].key = key

DictGet(d, key) == d[CHOOSE k \in 1..Len(d) : d[k].key = key].value

\* d[key] = value
DictSet(d, key, value) ==
    IF DictHas(d, key)
    THEN [k \in 1..Len(d) |->
            IF d[k].key = key THEN [key |-> key, value |-> value] ELSE d[k]]
    ELSE Append(d, [key |-> key, value |-> value])

\* {k: v for k, v in zip(keys, vals)}
RECURSIVE DictZip(_, _)
DictZip(keys, vals) ==
    IF keys = <<>> \/ vals = <<>> THEN <<>>
    ELSE DictSet(DictZip(SubSeq(keys, 1, Len(keys) - 1),
                         SubSeq(vals, 1, Len(vals) - 1)),
                 keys[Len(keys)], vals[Len(vals)])

\* --------------------------------------------------- checking the results

IsPayload(obj) == obj.type = "Dataset"

IsNone(obj) == obj.type = "None"

Returns(n) == [raised |-> FALSE, value |-> n]

Raises(error, what) == [raised |-> TRUE, error |-> error, what |-> what]

\* _check_single_set_return_values(path_to_node, obj): the number of return
\* values of one call of func, or the TypeError it raises.
check_single_set_return_values(path_to_node, obj) ==
    IF IsPayload(obj) THEN Returns(1)
    ELSE IF obj.type = "tuple"
    THEN IF \E k \in 1..Len(obj.items) : ~IsPayload(obj.items[k])
         THEN Raises("TypeError", "element")
         ELSE Returns(Len(obj.items))
    ELSE Raises("TypeError", "type")

RECURSIVE CheckLoop(_, _, _, _)
\* The for loop of _check_all_return_values over result_data_objects[1:],
\* about to look at item k (counted from 1).  prev is <<>> while
\* prev_num_return_values is None, and num is num_return_values.
CheckLoop(result_data_objects, k, prev, num) ==
    IF k > Len(result_data_objects) THEN Returns(num)
    ELSE LET r == check_single_set_return_values(
                      result_data_objects[k].key, result_data_objects[k].value)
         IN  IF r.raised THEN r
             ELSE IF prev # <<>> /\ r.value # prev[1]
             THEN Raises("TypeError", "arity")
             ELSE CheckLoop(result_data_objects, k + 1, <<r.value>>, r.value)

\* _check_all_return_values without its test for results that are all None.
check_all_return_values_NoNoneTest(returned_objects) ==
    LET result_data_objects ==
            SelectSeq(returned_objects, LAMBDA it : ~IsNone(it.value))
    IN  IF Len(result_data_objects) = 1
        THEN check_single_set_return_values(
                 result_data_objects[1].key, result_data_objects[1].value)
        ELSE CheckLoop(result_data_objects, 2, <<>>, 0)

\* _check_all_return_values(returned_objects)
check_all_return_values(returned_objects) ==
    IF \A k \in 1..Len(returned_objects) : IsNone(returned_objects[k].value)
    THEN Raises("TypeError", "all_none")
    ELSE LET result_data_objects ==
                 SelectSeq(returned_objects, LAMBDA it : ~IsNone(it.value))
         IN  IF Len(result_data_objects) = 1
             THEN check_single_set_return_values(
                      result_data_objects[1].key, result_data_objects[1].value)
             ELSE CheckLoop(result_data_objects, 2, <<>>, <<>>)

\* ------------------------------------------------------- the map call

\* parallel = True
parallel == TRUE

\* all_tree_inputs, first_tree and other_trees
all_tree_inputs == SelectSeq(args, IsTree)

first_tree == Head(all_tree_inputs)

other_trees == Tail(all_tree_inputs)

\* Where first_tree stands among the arguments.
FirstTreePos == CHOOSE j \in 1..Len(args) :
                    IsTree(args[j]) /\ \A i \in 1..(j - 1) : ~IsTree(args[i])

\* first_tree.subtree
FirstSubtree == Subtree(first_tree.tree, first_tree.node)

\* The nodes of a tree argument's subtree that hold data.
DataNodes(a) ==
    { n \in 1..Size(a.tree) :
        /\ \E k \in 1..Len(Subtree(a.tree, a.node)) :
               Subtree(a.tree, a.node)[k] = n
        /\ ~a.tree.empty[n] }

RECURSIVE FirstFailure(_, _)
\* The loop over other_trees: the first check that raises, else "ok".
FirstFailure(first, others) ==
    IF others = <<>> THEN "ok"
    ELSE LET r == check_isomorphic(first, Head(others), FALSE, FALSE)
         IN  IF r # "ok" THEN r ELSE FirstFailure(first, Tail(others))

RECURSIVE ShortestOf(_)
ShortestOf(lens) ==
    IF Len(lens) = 1 THEN Head(lens)
    ELSE Min(Head(lens), ShortestOf(Tail(lens)))

\* The number of positions of zip(first_tree.subtree, *iterables): a tree
\* argument gives its subtree, any other argument repeats for ever.
ZipLen ==
    ShortestOf([j \in 1..Len(all_tree_inputs) |->
                   Len(Subtree(all_tree_inputs[j].tree, all_tree_inputs[j].node))])

\* node_args_as_datasets and node_kwargs_as_datasets at zipped position k.
NodeArgs(k) ==
    [j \in 1..Len(args) |->
        IF IsTree(args[j])
        THEN Dataset(j, Subtree(args[j].tree, args[j].node)[k], 0)
        ELSE args[j]]

\* dask.delayed(func)(*node_args, **node_kwargs): a call not yet made.
Delayed(n, call) == [type |-> "Delayed", node |-> n, call |-> call]

\* func(*node_args, **node_kwargs) at node n of the first tree.
Call(n, call) ==
    LET kind == func[n]
    IN  IF kind[1] = "none" THEN None
        ELSE IF kind[1] = "ds" THEN call[FirstTreePos]
        ELSE IF kind[1] = "tuple"
        THEN TupleOf([slot \in 1..kind[2] |-> Dataset(FirstTreePos, n, slot)])
        ELSE IF kind[1] = "mixed"
        THEN TupleOf(<<Dataset(FirstTreePos, n, 1), Other>>)
        ELSE Other

\* CallsFunc asking every tree at the position for data, not the first only.
CallsFunc_EveryTree(k) ==
    \A j \in 1..Len(args) :
        IsTree(args[j]) =>
            ~args[j].tree.empty[Subtree(args[j].tree, args[j].node)[k]]

\* not node_of_first_tree.is_empty
CallsFunc(k) == ~first_tree.tree.empty[FirstSubtree[k]]

\* results at zipped position k, in the deferred and in the direct form.
Results(k) ==
    IF CallsFunc(k)
    THEN IF parallel THEN Delayed(FirstSubtree[k], NodeArgs(k))
         ELSE Call(FirstSubtree[k], NodeArgs(k))
    ELSE None

\* RelativeTo leaving the path as it is.
RelativeTo_Absolute(p, root) == IF p = root THEN <<".">> ELSE p

\* NodePath(p).relative_to(root): p without the leading root, "." when
\* nothing is left.
RelativeTo(p, root) ==
    IF p = root THEN <<".">>
    ELSE SubSeq(p, Len(root) + 1, Len(p))

\* relative_path: the key of a node in out_tree_contents.
RelativePath(p, original_root_path) ==
    LET relative_path == RelativeTo(p, original_root_path)
    IN  IF relative_path = <<".">> THEN <<"/">> ELSE relative_path

\* Whether reading output_node_data at path p for output i (from 0) raises
\* IndexError: out_data_objects[p][i] on a tuple of i items or fewer.
IndexError(out, p, i) ==
    /\ DictHas(out, p)
    /\ DictGet(out, p).type = "tuple"
    /\ i + 1 > Len(DictGet(out, p).items)

\* OutputNodeData taking the first element of a tuple for every output.
OutputNodeData_FirstItem(out, p, i) ==
    IF DictHas(out, p)
    THEN IF DictGet(out, p).type = "tuple"
         THEN DictGet(out, p).items[1]
         ELSE DictGet(out, p)
    ELSE None

\* output_node_data at path p for output i (from 0).
OutputNodeData(out, p, i) ==
    IF DictHas(out, p)
    THEN IF DictGet(out, p).type = "tuple"
         THEN DictGet(out, p).items[i + 1]
         ELSE DictGet(out, p)
    ELSE None

RECURSIVE OutTreeContents(_, _, _, _, _)
\* out_tree_contents after the first k nodes of sub, the subtree of the
\* tree argument first, for output i (from 0).
OutTreeContents(out, i, first, sub, k) ==
    IF k = 0 THEN <<>>
    ELSE LET p == Path(first.tree, sub[k])
         IN  DictSet(OutTreeContents(out, i, first, sub, k - 1),
                     RelativePath(p, Path(first.tree, first.node)),
                     OutputNodeData(out, p, i))

\* DataTree.from_dict(d, name=name): the new tree, as what it was made from.
from_dict(d, name) == [type |-> "DataTree", name |-> name, contents |-> d]

\* ---------------------------------------------------------- the actions

NoOutcome == [status |-> "running"]

Raised(error, what) == [status |-> "raised", error |-> error, what |-> what]

Returned(value) == [status |-> "returned", value |-> value]

\* Lines 168-175: the tree arguments are collected; without one the call
\* raises TypeError.
CollectTrees ==
    /\ pc = "start"
    /\ IF Len(all_tree_inputs) > 0
       THEN /\ pc' = "check"
            /\ UNCHANGED outcome
       ELSE /\ pc' = "raised"
            /\ outcome' = Raised("TypeError", "no_tree")
    /\ UNCHANGED <<args, func, opts, walk, out_data_objects, values, invoked,
                   num_return_values, result_trees, checks>>

\* Lines 177-184: every other tree is checked against the first one.
CheckOtherTrees ==
    /\ pc = "check"
    /\ LET r == FirstFailure(first_tree, other_trees)
       IN  IF r = "ok"
           THEN /\ pc' = "walk"
                /\ UNCHANGED outcome
           ELSE /\ pc' = "raised"
                /\ outcome' = Raised(r, "not_isomorphic")
    /\ UNCHANGED <<args, func, opts, walk, out_data_objects, values, invoked,
                   num_return_values, result_trees, checks>>

\* Lines 198-225: one position of the zipped traversal.
Visit ==
    /\ pc = "walk"
    /\ walk < ZipLen
    /\ walk' = walk + 1
    /\ LET node_of_first_tree == FirstSubtree[walk + 1]
       IN  /\ out_data_objects' =
                  DictSet(out_data_objects,
                          Path(first_tree.tree, node_of_first_tree),
                          Results(walk + 1))
           /\ invoked' = IF CallsFunc(walk + 1) /\ ~parallel
                         THEN [invoked EXCEPT ![node_of_first_tree] = @ + 1]
                         ELSE invoked
    /\ UNCHANGED <<args, func, opts, pc, values, num_return_values,
                   result_trees, outcome, checks>>

\* Lines 227-231: the traversal is over and the values go to dask.compute.
Submit ==
    /\ pc = "walk"
    /\ walk = ZipLen
    /\ IF parallel
       THEN /\ pc' = "compute"
            /\ values' = DictValues(out_data_objects)
       ELSE /\ pc' = "validate"
            /\ UNCHANGED values
    /\ UNCHANGED <<args, func, opts, walk, out_data_objects, invoked,
                   num_return_values, result_trees, outcome, checks>>

\* dask.compute runs one of the deferred calls, whichever it likes.
Execute(j) ==
    /\ pc = "compute"
    /\ values[j].type = "Delayed"
    /\ values' = [values EXCEPT ![j] = Call(values[j].node, values[j].call)]
    /\ invoked' = [invoked EXCEPT ![values[j].node] = @ + 1]
    /\ UNCHANGED <<args, func, opts, pc, walk, out_data_objects,
                   num_return_values, result_trees, outcome, checks>>

\* Gather with the values taken in the opposite order.
Gather_Reversed ==
    /\ pc = "compute"
    /\ \A j \in 1..Len(values) : values[j].type # "Delayed"
    /\ out_data_objects' =
           DictZip(DictKeys(out_data_objects),
                   [k \in 1..Len(values) |-> values[Len(values) + 1 - k]])
    /\ pc' = "validate"
    /\ UNCHANGED <<args, func, opts, walk, values, invoked, num_return_values,
                   result_trees, outcome, checks>>

\* Line 232: every call is made and the dict is rebuilt from keys and values.
Gather ==
    /\ pc = "compute"
    /\ \A j \in 1..Len(values) : values[j].type # "Delayed"
    /\ out_data_objects' = DictZip(DictKeys(out_data_objects), values)
    /\ pc' = "validate"
    /\ UNCHANGED <<args, func, opts, walk, values, invoked, num_return_values,
                   result_trees, outcome, checks>>

\* Line 235: num_return_values = _check_all_return_values(out_data_objects)
CheckReturnValues ==
    /\ pc = "validate"
    /\ LET r == check_all_return_values(out_data_objects)
       IN  IF r.raised
           THEN /\ pc' = "raised"
                /\ outcome' = Raised(r.error, r.what)
                /\ UNCHANGED num_return_values
           ELSE /\ pc' = "build"
                /\ num_return_values' = r.value
                /\ UNCHANGED outcome
    /\ UNCHANGED <<args, func, opts, walk, out_data_objects, values, invoked,
                   result_trees, checks>>

\* Lines 240-261: one pass of the loop over range(num_return_values).
BuildTree ==
    /\ pc = "build"
    /\ Len(result_trees) < num_return_values
    /\ LET i == Len(result_trees)
           first == first_tree
           sub == Subtree(first.tree, first.node)
       IN  IF \E k \in 1..Len(sub) :
                  IndexError(out_data_objects, Path(first.tree, sub[k]), i)
           THEN /\ pc' = "raised"
                /\ outcome' = Raised("IndexError", "tuple")
                /\ UNCHANGED result_trees
           ELSE /\ result_trees' =
                       Append(result_trees,
                              from_dict(OutTreeContents(out_data_objects, i,
                                                        first, sub, Len(sub)),
                                        first.tree.name[first.node]))
                /\ UNCHANGED <<pc, outcome>>
    /\ UNCHANGED <<args, func, opts, walk, out_data_objects, values, invoked,
                   num_return_values, checks>>

\* Lines 264-267: one tree is returned as it is, several as a tuple.
Return ==
    /\ pc = "build"
    /\ Len(result_trees) = num_return_values
    /\ outcome' = Returned(IF Len(result_trees) = 1 THEN result_trees[1]
                           ELSE TupleOf(result_trees))
    /\ pc' = "done"
    /\ UNCHANGED <<args, func, opts, walk, out_data_objects, values, invoked,
                   num_return_values, result_trees, checks>>

\* ------------------------------------------------------------ the calls

\* The namings of a shape in which the children of a node differ in name.
Namings(p) ==
    { nm \in [1..Len(p) -> Names] :
        \A i, j \in 1..Len(p) : (i # j /\ p[i] = p[j]) => nm[i] # nm[j] }

\* The state at the entry of _map_over_subtree(*args, **kwargs).
Entry(a, f) ==
    /\ args = a
    /\ func = f
    /\ opts = [require_names_equal |-> FALSE, check_from_root |-> FALSE]
    /\ pc = "start"
    /\ walk = 0
    /\ out_data_objects = <<>>
    /\ values = <<>>
    /\ invoked = IF \E j \in 1..Len(a) : IsTree(a[j])
                 THEN LET t == a[CHOOSE j \in 1..Len(a) : IsTree(a[j])].tree
                      IN  [n \in 1..Size(t) |-> 0]
                 ELSE <<>>
    /\ num_return_values = 0
    /\ result_trees = <<>>
    /\ outcome = NoOutcome
    /\ checks = <<>>

\* A call without a tree among its arguments.
InitNoTree == Entry(<<Scalar>>, <<>>)

\* The tree of shape p under its first naming, with data where e says.
PlainTree(p, e) ==
    [parent |-> p, name |-> CHOOSE nm \in Namings(p) : TRUE, empty |-> e]

\* The shapes of n nodes that Names can name.
Shapes(n) == { p \in ParentVectors(n) : Namings(p) # {} }

\* A call on one whole tree, of any shape, with any choice of nodes that
\* hold data and any return value of func at each of them.
InitResults ==
    \E n \in 1..MaxNodes : \E p \in Shapes(n) : \E e \in [1..n -> BOOLEAN] :
        \E f \in [DataNodes(TreeArg(PlainTree(p, e), 1)) -> Kinds] :
            Entry(<<TreeArg(PlainTree(p, e), 1)>>, f)

\* What may follow the first tree in a call: nothing, a scalar, or a whole
\* second tree of any shape whose nodes all hold data or all hold none.
Others ==
    {<<>>, <<Scalar>>}
        \cup UNION { { <<TreeArg(PlainTree(p, [i \in 1..m |-> e]), 1)>> :
                         p \in Shapes(m), e \in BOOLEAN } : m \in 1..MaxNodes }

\* A call on a node of any tree, alone or with a second argument, with a
\* func that returns the same kind of value at every node.
InitTrees ==
    \E n \in 1..MaxNodes : \E t \in TreesOfSize(n) : \E h \in 1..n :
        \E kind \in {<<"ds">>, <<"tuple", MaxTuple>>} : \E rest \in Others :
            Entry(<<TreeArg(t, h)>> \o rest,
                  [m \in DataNodes(TreeArg(t, h)) |-> kind])

Init == InitNoTree \/ InitResults \/ InitTrees

Next ==
    \/ CollectTrees
    \/ CheckOtherTrees
    \/ Visit
    \/ Submit
    \/ \E j \in 1..Len(values) : Execute(j)
    \/ Gather
    \/ CheckReturnValues
    \/ BuildTree
    \/ Return

Spec == Init /\ [][Next]_vars

\* ------------------------------------------- check_isomorphic on its own

\* The trees check_isomorphic is called with here: every node holds data.
IsoTrees == UNION { FullTreesOfSize(n) : n \in 1..MaxIsoNodes }

\* A first argument: any node of any tree, or something that is no tree.
IsoHandles ==
    {Scalar} \cup UNION { { TreeArg(t, i) : i \in 1..Size(t) } : t \in IsoTrees }

\* A second or third argument: any whole tree, or something that is no tree.
IsoArgs == {Scalar} \cup { TreeArg(t, 1) : t \in IsoTrees }

\* Two arguments A and B and the two options of the check.
InitIso ==
    /\ \E a \in IsoHandles, b \in IsoArgs : args = <<a, b>>
    /\ opts \in [require_names_equal : BOOLEAN, check_from_root : BOOLEAN]
    /\ pc = "iso"
    /\ checks = <<>>
    /\ func = <<>>
    /\ walk = 0
    /\ out_data_objects = <<>>
    /\ values = <<>>
    /\ invoked = <<>>
    /\ num_return_values = 0
    /\ result_trees = <<>>
    /\ outcome = NoOutcome

\* The pairs checked, in order: (A, B), then (B, C), then (A, C).
IsoPairs == << <<1, 2>>, <<2, 3>>, <<1, 3>> >>

\* The next call of check_isomorphic, its result kept in checks.
IsoCheck ==
    /\ pc = "iso"
    /\ Len(checks) < Len(IsoPairs)
    /\ LET pair == IsoPairs[Len(checks) + 1]
       IN  /\ pair[2] <= Len(args)
           /\ checks' = Append(checks,
                  check_isomorphic(args[pair[1]], args[pair[2]],
                                   opts.require_names_equal,
                                   opts.check_from_root))
    /\ UNCHANGED <<args, func, opts, pc, walk, out_data_objects, values,
                   invoked, num_return_values, result_trees, outcome>>

\* Once (A, B) has passed, a third argument C is taken.
IsoThird(c) ==
    /\ pc = "iso"
    /\ Len(args) = 2
    /\ checks = <<"ok">>
    /\ args' = Append(args, c)
    /\ UNCHANGED <<func, opts, pc, walk, out_data_objects, values, invoked,
                   num_return_values, result_trees, outcome, checks>>

NextIso == IsoCheck \/ \E c \in IsoArgs : IsoThird(c)

SpecIso == InitIso /\ [][NextIso]_vars

\* ------------------------------------------- the call without deferral

RECURSIVE DirectResults(_, _, _)
\* out_data_objects after k positions of the traversal when func_ is func
\* (parallel = False): every call is made at its node.  sub is the subtree
\* of the tree argument first.
DirectResults(first, sub, k) ==
    IF k = 0 THEN <<>>
    ELSE DictSet(DirectResults(first, sub, k - 1),
                 Path(first.tree, sub[k]),
                 IF CallsFunc(k) THEN Call(sub[k], NodeArgs(k)) ELSE None)

\* What _map_over_subtree returns or raises when func_ is func.
DirectOutcome ==
    IF Len(all_tree_inputs) = 0 THEN Raised("TypeError", "no_tree")
    ELSE IF FirstFailure(first_tree, other_trees) # "ok"
    THEN Raised(FirstFailure(first_tree, other_trees), "not_isomorphic")
    ELSE LET first == first_tree
             sub == Subtree(first.tree, first.node)
             out == DirectResults(first, sub, ZipLen)
             r == check_all_return_values(out)
             trees == [i \in 1..r.value |->
                          from_dict(OutTreeContents(out, i - 1, first, sub,
                                                    Len(sub)),
                                    first.tree.name[first.node])]
         IN  IF r.raised THEN Raised(r.error, r.what)
             ELSE IF \E i \in 1..r.value : \E k \in 1..Len(sub) :
                         IndexError(out, Path(first.tree, sub[k]), i - 1)
             THEN Raised("IndexError", "tuple")
             ELSE Returned(IF r.value = 1 THEN trees[1] ELSE TupleOf(trees))

\* ------------------------------------------------------------ the claims

\* The call has got past _check_all_return_values, or has raised.
Validated == pc \in {"build", "done", "raised"}

\* The error _check_all_return_values raises for a result that is no
\* dataset or tuple of datasets, or whose number of values differs.
ReturnValueError ==
    /\ outcome.status = "raised"
    /\ outcome.error = "TypeError"
    /\ outcome.what \in {"type", "element", "arity"}

\* The results that are not None, in traversal order.
NonNone == SelectSeq(out_data_objects, LAMBDA it : ~IsNone(it.value))

\* A single payload counts as 1 value and an N-tuple as N.
HasArity(obj) == obj.type \in {"Dataset", "tuple"}

Arity(obj) == IF obj.type = "tuple" THEN Len(obj.items) ELSE 1

\* Some result that is not None differs in arity from the one before it.
ArityMismatch ==
    /\ Len(NonNone) >= 2
    /\ \E k \in 2..Len(NonNone) :
           /\ HasArity(NonNone[k].value)
           /\ HasArity(NonNone[k - 1].value)
           /\ Arity(NonNone[k].value) # Arity(NonNone[k - 1].value)

\* C1: a call whose results that are not None number two or more, one of
\* them differing in arity from its predecessor, raises the return value
\* error and returns no trees.
C1_ArityMismatchRaises ==
    (Validated /\ ArityMismatch) => ReturnValueError

\* A single payload, or a tuple whose every element is a payload.
WellFormed(obj) ==
    \/ IsPayload(obj)
    \/ /\ obj.type = "tuple"
       /\ \A k \in 1..Len(obj.items) : IsPayload(obj.items[k])

\* C2: a call with a result that is not None and is neither a payload nor a
\* tuple of payloads raises the return value error and returns no trees.
C2_MalformedResultRaises ==
    (Validated /\ \E k \in 1..Len(NonNone) : ~WellFormed(NonNone[k].value))
        => ReturnValueError

\* C6: a call that fails has built no output tree.
C6_NoTreeBuiltWhenRaised ==
    outcome.status = "raised" => result_trees = <<>>

\* C7: when every recorded result is None, the call raises the all-None
\* error and builds no tree.
C7_AllNoneRaises ==
    (/\ Validated
     /\ out_data_objects # <<>>
     /\ \A k \in 1..Len(out_data_objects) : IsNone(out_data_objects[k].value))
        => /\ outcome = Raised("TypeError", "all_none")
           /\ pc = "raised"
           /\ result_trees = <<>>

\* C7 happens: func ran, returned None everywhere, and the call raised.
C7_Witness ==
    /\ pc = "raised"
    /\ outcome = Raised("TypeError", "all_none")
    /\ Len(out_data_objects) >= 2
    /\ \E n \in 1..Len(invoked) : invoked[n] = 1

\* The trees passed the isomorphism check.
PassedCheck ==
    \/ pc \in {"walk", "compute", "validate", "build", "done"}
    \/ pc = "raised" /\ outcome.what \notin {"no_tree", "not_isomorphic"}

\* The traversal is over and every deferred call has been made.
Computed ==
    \/ pc \in {"validate", "build", "done"}
    \/ pc = "raised" /\ outcome.what \notin {"no_tree", "not_isomorphic"}

RECURSIVE NamesBelow(_, _, _)
\* The names of the nodes from below node h down to its descendant n.
NamesBelow(t, h, n) ==
    IF n = h THEN <<>>
    ELSE Append(NamesBelow(t, h, t.parent[n]), t.name[n])

\* The key an output tree is to have for node n of the first tree.
ExpectedKey(n) ==
    IF n = first_tree.node THEN <<"/">>
    ELSE NamesBelow(first_tree.tree, first_tree.node, n)

\* func returns the dataset it is given, at every node it is called for.
IsIdentity == \A n \in DOMAIN func : func[n] = <<"ds">>

ReturnedTrees ==
    IF outcome.value.type = "tuple" THEN outcome.value.items
    ELSE <<outcome.value>>

\* func returns a k-tuple of datasets at every node that holds data.
ReturnsTuples(k) ==
    /\ DOMAIN func # {}
    /\ \A n \in DOMAIN func : func[n] = <<"tuple", k>>

\* func returns one dataset at every node that holds data.
ReturnsSingle ==
    /\ DOMAIN func # {}
    /\ \A n \in DOMAIN func : func[n] = <<"ds">>

\* C4: when func returns a k-tuple of datasets at every node with data, a
\* call that succeeds returns k trees, the i-th holding the i-th element of
\* each node's tuple, as one tree when k = 1 and as a tuple of trees
\* otherwise; with single datasets it returns one tree, not a tuple.
C4_OneTreePerTupleElement ==
    pc = "done" =>
        /\ \A k \in 0..MaxTuple : ReturnsTuples(k) =>
               /\ Len(ReturnedTrees) = k
               /\ (k = 1) = (outcome.value.type = "DataTree")
               /\ \A i \in 1..k : \A n \in DataNodes(first_tree) :
                      /\ ReturnedTrees[i].type = "DataTree"
                      /\ DictGet(ReturnedTrees[i].contents, ExpectedKey(n))
                             = Dataset(FirstTreePos, n, i)
        /\ ReturnsSingle =>
               /\ outcome.value.type = "DataTree"
               /\ \A n \in DataNodes(first_tree) :
                      DictGet(outcome.value.contents, ExpectedKey(n))
                          = Dataset(FirstTreePos, n, 0)

\* C4 happens: a call whose func returns 2-tuples at two nodes or more is
\* done.
C4_Witness ==
    /\ pc = "done"
    /\ ReturnsTuples(2)
    /\ Cardinality(DOMAIN func) >= 2
    /\ Len(ReturnedTrees) = 2

\* The nodes above node n.
Ancestors(t, n) == AncestorsOrSelf(t.parent, n) \ {n}

\* Output tree j has one entry for each node of the first tree's subtree,
\* in traversal order, under the names from below the first tree's node
\* down to that node ("/" for the node itself), and bears its name.
KeysAreRelative(j) ==
    /\ DictKeys(result_trees[j].contents)
           = [k \in 1..Len(FirstSubtree) |-> ExpectedKey(FirstSubtree[k])]
    /\ \A k, l \in 1..Len(result_trees[j].contents) :
           k # l => result_trees[j].contents[k].key
                        # result_trees[j].contents[l].key
    /\ result_trees[j].name = first_tree.tree.name[first_tree.node]

\* C5 as claimed: the keys are relative, and no key holds the name of a
\* node above the first tree's node.
C5_NoAncestorNameInKeys ==
    \A j \in 1..Len(result_trees) :
        /\ KeysAreRelative(j)
        /\ \A k \in 1..Len(result_trees[j].contents) :
               \A a \in Ancestors(first_tree.tree, first_tree.node) :
                   \A c \in 1..Len(result_trees[j].contents[k].key) :
                       result_trees[j].contents[k].key[c]
                           # first_tree.tree.name[a]

\* C5 as amended: every output tree has exactly one entry for each node of
\* the first tree's subtree, nodes without data included, keyed "/" for the
\* first tree's node and else by the names of the nodes from below it down
\* to the node, so that the nodes above it add nothing to a key; the names
\* are the first tree's, whatever the other trees' names are.
C5_KeysRelativeToFirstTree ==
    \A j \in 1..Len(result_trees) : KeysAreRelative(j)

\* C5 happens: a call on a node below the root, together with a second
\* tree of other names, has built a tree with an entry for a node without
\* data.
C5_Witness ==
    /\ pc = "done"
    /\ Len(all_tree_inputs) = 2
    /\ first_tree.tree.parent[first_tree.node] # 0
    /\ Len(FirstSubtree) >= 2
    /\ \E k \in 2..Len(FirstSubtree) :
           /\ first_tree.tree.empty[FirstSubtree[k]]
           /\ first_tree.tree.name[FirstSubtree[k]]
                  # other_trees[1].tree.name[
                        Subtree(other_trees[1].tree, other_trees[1].node)[k]]

\* C8: the check is transitive for both settings of require_names_equal:
\* when (A, B) and (B, C) pass it, so does (A, C).
C8_IsomorphismTransitive ==
    (Len(checks) = 3 /\ checks[1] = "ok" /\ checks[2] = "ok")
        => checks[3] = "ok"

\* C8 happens: three trees, A a node below its root and of two nodes or
\* more, have passed all three checks with names required equal.
C8_Witness ==
    /\ checks = <<"ok", "ok", "ok">>
    /\ opts.require_names_equal
    /\ ~opts.check_from_root
    /\ args[1].tree.parent[args[1].node] # 0
    /\ Len(Subtree(args[1].tree, args[1].node)) >= 2

RECURSIVE SameShape(_, _, _, _)
\* The subtrees at node na of ta and at node nb of tb branch alike.
SameShape(ta, na, tb, nb) ==
    LET ca == Children(ta, na)
        cb == Children(tb, nb)
    IN  /\ Len(ca) = Len(cb)
        /\ \A k \in 1..Min(Len(ca), Len(cb)) :
               SameShape(ta, ca[k], tb, cb[k])

RECURSIVE Position(_, _, _)
\* Where node n lies below node h: which child of which child it is.
Position(t, h, n) ==
    IF n = h THEN <<>>
    ELSE Append(Position(t, h, t.parent[n]),
                CHOOSE c \in 1..Len(Children(t, t.parent[n])) :
                    Children(t, t.parent[n])[c] = n)

\* C9: diff_treestructure returns the empty string only for two subtrees of
\* the same number of nodes and the same ordered shape; so once the other
\* trees have passed the check, each has a pre-order traversal as long as
\* the first tree's, node for node at the same place, and the zipped
\* traversal visits every node.
C9_ZipDropsNoNode ==
    Len(all_tree_inputs) > 0 =>
        /\ \A j \in 2..Len(all_tree_inputs) :
               LET o == all_tree_inputs[j]
                   so == Subtree(o.tree, o.node)
               IN  /\ diff_treestructure(first_tree, o, FALSE) = <<>> =>
                          /\ Len(LevelOrderIter(o.tree, o.node))
                                 = Len(LevelOrderIter(first_tree.tree,
                                                      first_tree.node))
                          /\ SameShape(first_tree.tree, first_tree.node,
                                       o.tree, o.node)
                   /\ PassedCheck =>
                          /\ diff_treestructure(first_tree, o, FALSE) = <<>>
                          /\ Len(so) = Len(FirstSubtree)
                          /\ \A k \in 1..Len(FirstSubtree) :
                                 Position(o.tree, o.node, so[k])
                                     = Position(first_tree.tree,
                                                first_tree.node, FirstSubtree[k])
        /\ PassedCheck => ZipLen = Len(FirstSubtree)
        /\ Computed => Len(out_data_objects) = Len(FirstSubtree)

\* C9 happens: a call on two trees of three nodes or more is done and has
\* a result for every node.
C9_Witness ==
    /\ pc = "done"
    /\ Len(all_tree_inputs) = 2
    /\ Len(FirstSubtree) >= 3
    /\ Len(out_data_objects) = Len(FirstSubtree)

====
